---------------------------- MODULE Spec2Model ----------------------------
(***************************************************************************)
(* Model of mruby-require (src/src/mrb_require.c): Kernel#load and         *)
(* Kernel#require, the path resolver find_file, the dispatcher load_file,  *)
(* the three loaders and the two registries $" and $"_.                    *)
(*                                                                         *)
(* Strings are sequences of one-character strings, so that strrchr, the    *)
(* concatenation of find_file_check and realpath are computed as the code  *)
(* computes them.  The nil object is the one-element sequence Nil.         *)
(***************************************************************************)
EXTENDS Integers, Sequences, FiniteSets, TLC

VARIABLES
    files,      \* the filesystem: canonical path -> "good" | "bad" content
    loadPath,   \* the global $:  ([isary, ary])
    loaded,     \* the global $"  (array of paths)
    loading,    \* the global $"_ ([isnil, ary]); unset (nil) until first add
    stack,      \* the dispatches in progress: frames whose top-level code runs
    tmp,        \* the temporary bytecode file /tmp/mruby.<pid>: [exists, src, ok]
    crashed,    \* the process died on a nil dereference
    event       \* what the last step did (history)

vars == <<files, loadPath, loaded, loading, stack, tmp, crashed, event>>

-----------------------------------------------------------------------------
(* Bounds of the model *)

\* nesting depth up to which module code may still issue a nested load
MaxDepth == 1
\* nested load/require calls one run of a module's top-level code may issue
MaxCalls == 1

-----------------------------------------------------------------------------
(* Strings *)

Nil == <<"nil">>

SO_EXT  == <<".", "s", "o">>
RB_EXT  == <<".", "r", "b">>
MRB_EXT == <<".", "m", "r", "b">>

\* strrchr(s, c): the index of the last c in s, 0 for NULL
StrRChr(s, c) ==
    LET hits == {i \in 1..Len(s) : s[i] = c}
    IN  IF hits = {} THEN 0 ELSE CHOOSE i \in hits : \A j \in hits : j <= i

\* the string strrchr points at (from the last c to the end)
StrFrom(s, i) == SubSeq(s, i, Len(s))

\* the components of a path string between '/' characters
RECURSIVE Split(_)
Split(s) ==
    IF s = <<>> THEN << <<>> >>
    ELSE LET hits == {i \in 1..Len(s) : s[i] = "/"}
         IN  IF hits = {} THEN <<s>>
             ELSE LET i == CHOOSE k \in hits : \A j \in hits : k <= j
                  IN  <<SubSeq(s, 1, i - 1)>> \o Split(SubSeq(s, i + 1, Len(s)))

RECURSIVE Join(_)
Join(comps) ==
    IF comps = <<>> THEN <<>>
    ELSE <<"/">> \o Head(comps) \o Join(Tail(comps))

\* the current working directory of the process
Cwd == <<"/", "c">>

\* one step of path canonicalisation: "" and "." are dropped, ".." pops
RECURSIVE Canon(_, _)
Canon(done, rest) ==
    IF rest = <<>> THEN done
    ELSE LET c == Head(rest)
         IN  IF c = <<>> \/ c = <<".">> THEN Canon(done, Tail(rest))
             ELSE IF c = <<".", ".">>
                  THEN Canon(IF done = <<>> THEN done
                             ELSE SubSeq(done, 1, Len(done) - 1), Tail(rest))
                  ELSE Canon(Append(done, c), Tail(rest))

\* realpath(3): the absolute canonical name (relative names start at Cwd)
Realpath(s) ==
    LET abs == IF s # <<>> /\ s[1] = "/" THEN s ELSE Cwd \o <<"/">> \o s
        out == Join(Canon(<<>>, Split(abs)))
    IN  IF out = <<>> THEN <<"/">> ELSE out

-----------------------------------------------------------------------------
(* The filesystem and the inputs *)

Dir_a == <<"/", "a">>
Dir_b == <<"/", "b">>

A_m_rb   == <<"/", "a", "/", "m", ".", "r", "b">>
A_m_mrb  == <<"/", "a", "/", "m", ".", "m", "r", "b">>
A_m_so   == <<"/", "a", "/", "m", ".", "s", "o">>
A_d_m_rb == <<"/", "a", "/", "d", ".", "d", "/", "m", ".", "r", "b">>
B_m_rb   == <<"/", "b", "/", "m", ".", "r", "b">>
B_n_rb   == <<"/", "b", "/", "n", ".", "r", "b">>
B_n_mrb  == <<"/", "b", "/", "n", ".", "m", "r", "b">>
C_m_rb   == <<"/", "c", "/", "m", ".", "r", "b">>
C_m      == <<"/", "c", "/", "m">>
A_d_m    == <<"/", "a", "/", "d", ".", "d", "/", "m">>

\* a filesystem: the files of `good` are well formed, those of `bad` are not
\* (a source file with a syntax error, a corrupt bytecode container, a shared
\* object the dynamic loader rejects)
FileSet(good, bad) == [p \in good \cup bad |-> IF p \in good THEN "good" ELSE "bad"]

Filesystems ==
    { FileSet({A_m_mrb, B_m_rb, B_n_rb}, {}),
      FileSet({B_m_rb, C_m_rb, A_d_m_rb}, {}),
      FileSet({A_m_so, C_m, B_n_rb}, {A_m_rb, B_n_mrb}),
      FileSet({B_n_rb, A_d_m}, {A_m_mrb}) }

\* the module names load and require are called with
ModuleNames ==
    { <<"m">>,
      <<".", "/", "m">>,
      <<".", "/", "m", ".", "r", "b">>,
      <<"d", ".", "d", "/", "m">>,
      A_m_rb }

\* the module names the top-level code of a module calls load and require with
NestedNames == { <<"m">>, <<"n">>, A_m_rb }

\* the values scripting code gives the global $: (an array, or another object)
Ary(a) == [isary |-> TRUE, ary |-> a]
NotAnArray == [isary |-> FALSE, ary |-> <<>>]
LoadPathValues == { Ary(<<>>), Ary(<<Dir_a, Dir_b>>), NotAnArray }

\* fopen(path, "r") != NULL
CanOpen(fs, path) == path \in DOMAIN fs

-----------------------------------------------------------------------------
(* Path Resolver *)

\* find_file_check: path + "/" + fname + ext, canonicalised by realpath, and
\* returned when it opens for reading; nil otherwise.  (When realpath fails the
\* buffer holds the name of the component that does not exist, and the fopen
\* of it fails as well.)
find_file_check(fs, path, fname, ext) ==
    LET filepath == path \o <<"/">> \o fname \o (IF ext = Nil THEN <<>> ELSE ext)
        fpath    == Realpath(filepath)
    IN  IF CanOpen(fs, fpath) THEN fpath ELSE Nil

\* the extension candidates find_file builds from the module name
Exts(fname) ==
    IF StrRChr(fname, ".") = 0 THEN <<RB_EXT, MRB_EXT, SO_EXT>> ELSE <<Nil>>

\* the directories searched when the test for a leading '.' is missing
EffectivePath_no_dot(load_path, fname) == load_path

\* the directories the search loop of find_file walks
EffectivePath(load_path, fname) ==
    IF fname[1] = "." THEN << <<".">> >> ELSE load_path

\* the search loop with the two loops exchanged: extensions outside
SearchLoop_ext_outer(fs, dirs, fname, exts) ==
    LET nd   == Len(dirs)
        n    == nd * Len(exts)
        at(k) == find_file_check(fs, dirs[((k - 1) % nd) + 1], fname,
                                 exts[((k - 1) \div nd) + 1])
        hits == {k \in 1..n : at(k) # Nil}
    IN  IF hits = {} THEN Nil
        ELSE at(CHOOSE k \in hits : \A j \in hits : k <= j)

\* the search loop: directories outside, extensions inside, first hit wins
SearchLoop(fs, dirs, fname, exts) ==
    LET ne   == Len(exts)
        n    == Len(dirs) * ne
        at(k) == find_file_check(fs, dirs[((k - 1) \div ne) + 1], fname,
                                 exts[((k - 1) % ne) + 1])
        hits == {k \in 1..n : at(k) # Nil}
    IN  IF hits = {} THEN Nil
        ELSE at(CHOOSE k \in hits : \A j \in hits : k <= j)

\* find_file without the branch for absolute names: they go through the
\* search loop like the others
find_file_no_absolute(fs, gv, filename) ==
    LET exts == Exts(filename)
        dirs == EffectivePath(gv.ary, filename)
        hit  == SearchLoop(fs, dirs, filename, exts)
    IN  IF ~gv.isary
        THEN [raise |-> "RuntimeError", msg |-> <<>>, path |-> Nil,
              exts |-> <<>>, dirs |-> <<>>, gv |-> gv]
        ELSE IF hit # Nil
        THEN [raise |-> "none", msg |-> <<>>, path |-> hit,
              exts |-> exts, dirs |-> dirs, gv |-> gv]
        ELSE [raise |-> "LoadError", msg |-> filename, path |-> Nil,
              exts |-> exts, dirs |-> dirs, gv |-> gv]

\* find_file that returns nil when the search loop finds nothing, as its
\* branch for absolute names does
find_file_nil_on_miss(fs, gv, filename) ==
    LET exts == Exts(filename)
        dirs == EffectivePath(gv.ary, filename)
        hit  == SearchLoop(fs, dirs, filename, exts)
    IN  IF ~gv.isary
        THEN [raise |-> "RuntimeError", msg |-> <<>>, path |-> Nil,
              exts |-> <<>>, dirs |-> <<>>, gv |-> gv]
        ELSE IF filename[1] = "/"
        THEN [raise |-> "none", msg |-> <<>>,
              path |-> IF CanOpen(fs, filename) THEN filename ELSE Nil,
              exts |-> exts, dirs |-> <<>>, gv |-> gv]
        ELSE [raise |-> "none", msg |-> <<>>, path |-> hit,
              exts |-> exts, dirs |-> dirs, gv |-> gv]

\* find_file: what the call does with the module name `filename` when the
\* global $: holds `gv`.  raise is "none", "RuntimeError" or "LoadError"; msg
\* is the name the error message carries; path is the value returned (nil for
\* an absolute name that does not open); dirs are the directories searched;
\* gv is the global $: after the call.
find_file(fs, gv, filename) ==
    LET exts == Exts(filename)
        dirs == EffectivePath(gv.ary, filename)
        hit  == SearchLoop(fs, dirs, filename, exts)
    IN  IF ~gv.isary
        THEN [raise |-> "RuntimeError", msg |-> <<>>, path |-> Nil,
              exts |-> <<>>, dirs |-> <<>>, gv |-> gv]
        ELSE IF filename[1] = "/"
        THEN [raise |-> "none", msg |-> <<>>,
              path |-> IF CanOpen(fs, filename) THEN filename ELSE Nil,
              exts |-> exts, dirs |-> <<>>, gv |-> gv]
        ELSE IF hit # Nil
        THEN [raise |-> "none", msg |-> <<>>, path |-> hit,
              exts |-> exts, dirs |-> dirs, gv |-> gv]
        ELSE [raise |-> "LoadError", msg |-> filename, path |-> Nil,
              exts |-> exts, dirs |-> dirs, gv |-> gv]

-----------------------------------------------------------------------------
(* Module Registry *)

\* mrb_str_cmp(a, b) == 0.  Both arguments are taken for strings: with nil for
\* one of them the comparison reads through the nil object's pointer.
StrCmpIsNilDeref(a, b) == a = Nil \/ b = Nil

\* loaded_files_check with the test of mrb_str_cmp inverted, so that the path
\* looked for is never recognised
loaded_files_check_never(loaded_files, loading_files, filepath) ==
    IF filepath = Nil /\ (loaded_files # <<>> \/ loading_files.ary # <<>>)
    THEN "crash" ELSE "new"

\* loaded_files_check that returns after the scan of $" without looking at $"_
loaded_files_check_loaded_only(loaded_files, loading_files, filepath) ==
    IF filepath = Nil /\ loaded_files # <<>> THEN "crash"
    ELSE IF \E i \in 1..Len(loaded_files) : loaded_files[i] = filepath
    THEN "seen" ELSE "new"

\* loaded_files_check: "new" (1: neither loaded nor loading), "seen" (0), or
\* "crash" when a comparison dereferences nil.  $" is scanned first, then $"_
\* unless that global is still nil.
loaded_files_check(loaded_files, loading_files, filepath) ==
    LET scan(ary) ==
            IF \E i \in 1..Len(ary) :
                   /\ StrCmpIsNilDeref(ary[i], filepath)
                   /\ \A j \in 1..(i - 1) : ary[j] # filepath
            THEN "crash"
            ELSE IF \E i \in 1..Len(ary) : ary[i] = filepath THEN "seen" ELSE "new"
        first == scan(loaded_files)
    IN  IF first # "new" THEN first
        ELSE IF loading_files.isnil THEN "new"
        ELSE scan(loading_files.ary)

\* loading_files_add that builds the array and does not store the path in it
loading_files_add_lost(loading_files, filepath) ==
    [isnil |-> FALSE,
     ary   |-> IF loading_files.isnil THEN <<>> ELSE loading_files.ary]

\* loading_files_add: push onto $"_, creating the array when the global is nil
loading_files_add(loading_files, filepath) ==
    [isnil |-> FALSE,
     ary   |-> Append(IF loading_files.isnil THEN <<>> ELSE loading_files.ary, filepath)]

\* loaded_files_add that pushes nothing
loaded_files_add_lost(loaded_files, filepath) == loaded_files

\* loaded_files_add: push onto $"
loaded_files_add(loaded_files, filepath) == Append(loaded_files, filepath)

-----------------------------------------------------------------------------
(* Dispatcher and loaders *)

\* load_file with the extension compared by its last two characters only, so
\* that ".mrb" is taken for ".rb"
load_file_suffix(filepath) ==
    LET i   == StrRChr(filepath, ".")
        n   == Len(filepath)
    IN  IF filepath = Nil THEN "crash"
        ELSE IF i = 0 THEN "invalid"
        ELSE IF n >= 2 /\ SubSeq(filepath, n - 1, n) = <<"r", "b">> THEN "rb"
        ELSE IF StrFrom(filepath, i) = SO_EXT THEN "so"
        ELSE "invalid_ext"

\* load_file: the loader the extension of filepath selects ("mrb", "rb", "so"),
\* or the error raised ("invalid": no '.', "invalid_ext"), or "crash" when
\* filepath is nil and RSTRING_PTR reads through it.
load_file(filepath) ==
    LET i   == StrRChr(filepath, ".")
        ext == StrFrom(filepath, i)
    IN  IF filepath = Nil THEN "crash"
        ELSE IF i = 0 THEN "invalid"
        ELSE IF ext = MRB_EXT THEN "mrb"
        ELSE IF ext = RB_EXT THEN "rb"
        ELSE IF ext = SO_EXT THEN "so"
        ELSE "invalid_ext"

NoTmp == [exists |-> FALSE, src |-> Nil, ok |-> FALSE]

\* mrb_compile: the temporary file after compiling filepath into it.  The
\* result of the compilation is not inspected: a source file that does not
\* compile leaves a file that holds no loadable unit.
mrb_compile(fs, filepath) == [exists |-> TRUE, src |-> filepath, ok |-> fs[filepath] = "good"]

\* load_mrb_file_with_filepath up to the call of the unit: "exec" when
\* mrb_read_irep_file returned a unit (n >= 0); otherwise "raise" when
\* mrb->exc is set (longjmp) and "skip" when it is not (the function returns
\* without having run anything).
load_mrb_file_with_filepath(ok) ==
    IF ok THEN {"exec"} ELSE {"raise", "skip"}

\* load_so_file: dlopen/dlsym succeed and the initialiser runs ("native"), or a
\* RuntimeError is raised
load_so_file(fs, filepath) ==
    IF fs[filepath] = "good" THEN {"native"} ELSE {"raise"}

\* load_rb_file that keeps a temporary file it finds in place and reads that
\* one back instead of the bytecode it has just compiled
load_rb_file_stale(fs, tmpfile, filepath) ==
    LET written == IF tmpfile.exists THEN tmpfile ELSE mrb_compile(fs, filepath)
    IN  { [how  |-> h,
           tmp  |-> IF h = "skip" THEN NoTmp ELSE written,
           code |-> written.src] : h \in load_mrb_file_with_filepath(written.ok) }

\* load_rb_file: the temporary file is written by mrb_compile, then read back
\* and run by load_mrb_file_with_filepath; remove() follows only when that
\* call returns.  Gives the outcomes as [how, tmp, code].  (The fopen test
\* at the head of both loaders passes: find_file has just opened the file, and
\* the files do not change while the VM runs.)
load_rb_file(fs, tmpfile, filepath) ==
    LET written == mrb_compile(fs, filepath)
    IN  { [how  |-> h,
           tmp  |-> IF h = "skip" THEN NoTmp ELSE written,
           code |-> written.src] : h \in load_mrb_file_with_filepath(written.ok) }

\* load_mrb_file: the file itself is the bytecode container
load_mrb_file(fs, tmpfile, filepath) ==
    { [how |-> h, tmp |-> tmpfile, code |-> filepath] :
          h \in load_mrb_file_with_filepath(fs[filepath] = "good") }

\* the outcomes of the loader load_file selected
RunLoader(fs, tmpfile, filepath, loader) ==
    IF loader = "rb" THEN load_rb_file(fs, tmpfile, filepath)
    ELSE IF loader = "mrb" THEN load_mrb_file(fs, tmpfile, filepath)
    ELSE { [how |-> h, tmp |-> tmpfile, code |-> filepath] : h \in load_so_file(fs, filepath) }

-----------------------------------------------------------------------------
(* Public API: what one call does up to the point where module code runs *)

NoFrame == [op |-> "none", path |-> Nil, calls |-> 0, code |-> Nil]

\* an outcome of a call: its result ("exec": the unit's top-level code
\* starts; "true"; "false"; "raise"; "crash"), the registries, the temporary
\* file and the global $: it leaves, and the fields recorded in `event`
Outcome(res, err, ff, chk, ldr, ld, lg, tf, fr) ==
    [result |-> res, err |-> err, path |-> ff.path, exts |-> ff.exts,
     dirs |-> ff.dirs, msg |-> ff.msg, raise |-> ff.raise, check |-> chk,
     loader |-> ldr,
     loaded |-> ld, loading |-> lg, tmp |-> tf, gv |-> ff.gv, frame |-> fr]

\* the statements after load_file returns: mrb_require pushes the path onto
\* $" and returns true, mrb_load returns true
AfterLoadFile(op, ld, filepath) ==
    IF op = "require" THEN loaded_files_add(ld, filepath) ELSE ld

\* load_file(filepath) with a handler that takes the path of a failed require
\* off $"_ again
Dispatch_unmark(fs, op, ff, chk, ld, lg, tf) ==
    LET filepath == ff.path
        d        == load_file(filepath)
        unmarked == IF op = "require" /\ lg.ary # <<>>
                    THEN [lg EXCEPT !.ary = SubSeq(@, 1, Len(@) - 1)]
                    ELSE lg
    IN  IF d = "crash"
        THEN {Outcome("crash", "nil", ff, chk, "none", ld, lg, tf, NoFrame)}
        ELSE IF d \in {"invalid", "invalid_ext"}
        THEN {Outcome("raise", d, ff, chk, "none", ld, unmarked, tf, NoFrame)}
        ELSE { IF r.how = "exec"
               THEN Outcome("exec", "none", ff, chk, d, ld, lg, r.tmp,
                            [op |-> op, path |-> filepath, calls |-> 0, code |-> r.code])
               ELSE IF r.how = "raise"
               THEN Outcome("raise", "loader", ff, chk, d, ld, unmarked, r.tmp, NoFrame)
               ELSE Outcome("true", r.how, ff, chk, d,
                            AfterLoadFile(op, ld, filepath), lg, r.tmp, NoFrame)
               : r \in RunLoader(fs, tf, filepath, d) }

\* load_file(filepath) as called from mrb_load or mrb_require
Dispatch(fs, op, ff, chk, ld, lg, tf) ==
    LET filepath == ff.path
        d        == load_file(filepath)
    IN  IF d = "crash"
        THEN {Outcome("crash", "nil", ff, chk, "none", ld, lg, tf, NoFrame)}
        ELSE IF d \in {"invalid", "invalid_ext"}
        THEN {Outcome("raise", d, ff, chk, "none", ld, lg, tf, NoFrame)}
        ELSE { IF r.how = "exec"
               THEN Outcome("exec", "none", ff, chk, d, ld, lg, r.tmp,
                            [op |-> op, path |-> filepath, calls |-> 0, code |-> r.code])
               ELSE IF r.how = "raise"
               THEN Outcome("raise", "loader", ff, chk, d, ld, lg, r.tmp, NoFrame)
               ELSE Outcome("true", r.how, ff, chk, d,
                            AfterLoadFile(op, ld, filepath), lg, r.tmp, NoFrame)
               : r \in RunLoader(fs, tf, filepath, d) }

\* mrb_load that skips a path the registries hold, as mrb_require does
mrb_load_checked(fs, gv, ld, lg, tf, filename) ==
    LET ff == find_file(fs, gv, filename)
    IN  IF ff.raise # "none"
        THEN {Outcome("raise", ff.raise, ff, "none", "none", ld, lg, tf, NoFrame)}
        ELSE IF loaded_files_check(ld, lg, ff.path) = "seen"
        THEN {Outcome("true", "none", ff, "seen", "none", ld, lg, tf, NoFrame)}
        ELSE Dispatch(fs, "load", ff, "none", ld, lg, tf)

\* mrb_load
mrb_load(fs, gv, ld, lg, tf, filename) ==
    LET ff == find_file(fs, gv, filename)
    IN  IF ff.raise # "none"
        THEN {Outcome("raise", ff.raise, ff, "none", "none", ld, lg, tf, NoFrame)}
        ELSE Dispatch(fs, "load", ff, "none", ld, lg, tf)

\* mrb_require
mrb_require(fs, gv, ld, lg, tf, filename) ==
    LET ff  == find_file(fs, gv, filename)
        chk == loaded_files_check(ld, lg, ff.path)
    IN  IF ff.raise # "none"
        THEN {Outcome("raise", ff.raise, ff, "none", "none", ld, lg, tf, NoFrame)}
        ELSE IF chk = "crash"
        THEN {Outcome("crash", "nil", ff, chk, "none", ld, lg, tf, NoFrame)}
        ELSE IF chk = "seen"
        THEN {Outcome("false", "none", ff, chk, "none", ld, lg, tf, NoFrame)}
        ELSE Dispatch(fs, "require", ff, chk, ld, loading_files_add(lg, ff.path), tf)

-----------------------------------------------------------------------------
(* The state machine *)

NoCall == [result |-> "none", err |-> "none", path |-> Nil, exts |-> <<>>,
           dirs |-> <<>>, msg |-> <<>>, raise |-> "none", check |-> "none",
           loader |-> "none"]

Event(kind, op, name, o, depth) ==
    [kind |-> kind, op |-> op, name |-> name, depth |-> depth,
     result |-> o.result, err |-> o.err, path |-> o.path, exts |-> o.exts,
     dirs |-> o.dirs, msg |-> o.msg, raise |-> o.raise, check |-> o.check,
     loader |-> o.loader]

\* the separator of the entries of MRBLIB
ENV_SEP == ":"

\* the loop of envpath_to_mrb_ary from index i on: the entry runs up to the
\* next separator or the end of the string, and the index then steps over
\* the separator
RECURSIVE EnvEntries(_, _, _)
EnvEntries(env, i, ary) ==
    IF i > Len(env) THEN ary
    ELSE LET seps == {k \in i..Len(env) : env[k] = ENV_SEP}
             end  == IF seps = {} THEN Len(env) + 1
                     ELSE CHOOSE k \in seps : \A j \in seps : k <= j
         IN  EnvEntries(env, end + 1, Append(ary, SubSeq(env, i, end - 1)))

\* envpath_to_mrb_ary: the empty array when the variable is unset (getenv
\* gives NULL, here Nil), its entries otherwise
envpath_to_mrb_ary(env) == IF env = Nil THEN <<>> ELSE EnvEntries(env, 1, <<>>)

\* the values of the environment variable MRBLIB: unset, or "/a:/b"
Environments == { Nil, Dir_a \o <<ENV_SEP>> \o Dir_b }

\* mrb_mruby_require_gem_init: $: is set from MRBLIB by mrb_init_load_path and
\* $" to an empty array; $"_ is not set and reads as nil
Init ==
    /\ files \in Filesystems
    /\ \E env \in Environments : loadPath = Ary(envpath_to_mrb_ary(env))
    /\ loaded = <<>>
    /\ loading = [isnil |-> TRUE, ary |-> <<>>]
    /\ stack = <<>>
    /\ tmp = NoTmp
    /\ crashed = FALSE
    /\ event = Event("init", "none", <<>>, NoCall, 0)

\* the effect of outcome o of a call issued with the frames `base` in progress
Apply(op, name, o, base) ==
    /\ loadPath' = o.gv
    /\ loaded' = o.loaded
    /\ loading' = o.loading
    /\ tmp' = o.tmp
    /\ files' = files
    /\ crashed' = (o.result = "crash")
    /\ event' = Event("call", op, name, o, Len(base))
    /\ IF o.result = "exec" THEN stack' = Append(base, o.frame)
       ELSE IF o.result = "crash" THEN stack' = <<>>
       ELSE IF o.result = "raise"
       THEN \E k \in 0..Len(base) : stack' = SubSeq(base, 1, Len(base) - k)
       ELSE stack' = base

Calls(op, name) ==
    IF op = "require"
    THEN mrb_require(files, loadPath, loaded, loading, tmp, name)
    ELSE mrb_load(files, loadPath, loaded, loading, tmp, name)

\* mrb_f_require called by the embedding program
TopRequire ==
    /\ ~crashed /\ stack = <<>>
    /\ \E name \in ModuleNames : \E o \in Calls("require", name) :
           Apply("require", name, o, stack)

\* mrb_f_load called by the embedding program
TopLoad ==
    /\ ~crashed /\ stack = <<>>
    /\ \E name \in ModuleNames : \E o \in Calls("load", name) :
           Apply("load", name, o, stack)

\* the frames with the running one having issued one more call
Bump(st) == [st EXCEPT ![Len(st)].calls = @ + 1]

\* mrb_f_require called by the top-level code of the module being loaded
NestedRequire ==
    /\ ~crashed /\ stack # <<>>
    /\ stack[Len(stack)].calls < MaxCalls
    /\ \E name \in NestedNames : \E o \in Calls("require", name) :
           Apply("require", name, o, Bump(stack))

\* mrb_f_load called by the top-level code of the module being loaded
NestedLoad ==
    /\ ~crashed /\ stack # <<>>
    /\ stack[Len(stack)].calls < MaxCalls
    /\ Len(stack) <= MaxDepth
    /\ \E name \in NestedNames : \E o \in Calls("load", name) :
           Apply("load", name, o, Bump(stack))

\* the unit's top-level code ends: mrb_yield_internal returns, load_rb_file
\* removes the temporary file, mrb_require pushes the path onto $"
Return ==
    /\ ~crashed /\ stack # <<>>
    /\ LET fr == stack[Len(stack)]
       IN  /\ stack' = SubSeq(stack, 1, Len(stack) - 1)
           /\ tmp' = IF load_file(fr.path) = "rb" THEN NoTmp ELSE tmp
           /\ loaded' = AfterLoadFile(fr.op, loaded, fr.path)
           /\ event' = Event("return", fr.op, <<>>,
                             [NoCall EXCEPT !.result = "true", !.path = fr.path],
                             Len(stack) - 1)
    /\ UNCHANGED <<files, loadPath, loading, crashed>>

\* the unit's top-level code raises: the exception leaves k frames through
\* the VM's non-local exit, and a rescue (or the embedding program) takes it
ScriptRaise ==
    /\ ~crashed /\ stack # <<>>
    /\ \E k \in 1..Len(stack) :
           /\ stack' = SubSeq(stack, 1, Len(stack) - k)
           /\ event' = Event("raise", stack[Len(stack)].op, <<>>,
                             [NoCall EXCEPT !.result = "raise", !.err = "script",
                                            !.path = stack[Len(stack)].path],
                             Len(stack) - k)
    /\ UNCHANGED <<files, loadPath, loaded, loading, tmp, crashed>>

\* scripting code of the embedding program assigns $:
SetLoadPath ==
    /\ ~crashed /\ stack = <<>>
    /\ \E v \in LoadPathValues :
           /\ v # loadPath
           /\ loadPath' = v
    /\ event' = Event("setpath", "none", <<>>, NoCall, 0)
    /\ UNCHANGED <<files, loaded, loading, stack, tmp, crashed>>

Next ==
    \/ TopRequire
    \/ TopLoad
    \/ NestedRequire
    \/ NestedLoad
    \/ Return
    \/ ScriptRaise
    \/ SetLoadPath

Spec == Init /\ [][Next]_vars

\* Modules whose top-level code issues only require calls and does not raise.
\* The top-level code of a module is finite and the VM runs it to its end: a
\* unit in progress eventually returns (unless it is busy in nested calls).
NextReq ==
    \/ TopRequire
    \/ NestedRequire
    \/ Return
    \/ SetLoadPath

SpecReq == Init /\ [][NextReq]_vars /\ WF_vars(Return)

-----------------------------------------------------------------------------
(* Properties *)

In(x, seq) == \E i \in 1..Len(seq) : seq[i] = x

Range(seq) == {seq[i] : i \in 1..Len(seq)}

IsPrefix(a, b) == Len(a) <= Len(b) /\ SubSeq(b, 1, Len(a)) = a

IsCall(e) == e.kind = "call"

\* the file at path holds a unit a loader can run
Runnable(fs, path) == path \in DOMAIN fs /\ fs[path] = "good"

\* C1: once a resolved path is in the Loaded Registry, a require that resolves
\* to it returns false, runs no loader and changes neither registry; a require
\* dispatches only a path that is in neither registry and puts it in the
\* Loading Registry, and the registries only grow: so each path is
\* dispatched by require at most once.
C1_RequireOnce ==
    [][ /\ IsPrefix(loaded, loaded')
        /\ loading'.isnil => loading.isnil
        /\ IsPrefix(loading.ary, loading'.ary)
        /\ (IsCall(event') /\ event'.op = "require" /\ event'.path # Nil) =>
              /\ In(event'.path, loaded) =>
                    /\ event'.result = "false"
                    /\ event'.loader = "none"
                    /\ loaded' = loaded /\ loading' = loading /\ tmp' = tmp
                    /\ Len(stack') = Len(stack)
              /\ event'.loader # "none" =>
                    /\ ~In(event'.path, loaded)
                    /\ ~In(event'.path, loading.ary)
                    /\ In(event'.path, loading'.ary) ]_vars

\* a second require of a path of the Loaded Registry has returned false
C1_Witness ==
    /\ IsCall(event) /\ event.op = "require" /\ event.result = "false"
    /\ In(event.path, loaded)

\* the loader the extension of a resolved path stands for
LoaderOfExt(path) ==
    LET i == StrRChr(path, ".")
    IN  IF i = 0 THEN "none"
        ELSE IF StrFrom(path, i) = RB_EXT THEN "rb"
        ELSE IF StrFrom(path, i) = MRB_EXT THEN "mrb"
        ELSE IF StrFrom(path, i) = SO_EXT THEN "so"
        ELSE "none"

\* C2: a load whose name resolves to a file with a loader's extension hands
\* the file to that loader whatever the two registries hold; when the file is
\* well formed its top-level code is started (a new frame for it, or the
\* native initialiser has run), also when the path is already in a registry.
C2_LoadAlwaysDispatches ==
    (IsCall(event) /\ event.op = "load" /\ event.path # Nil
        /\ LoaderOfExt(event.path) # "none") =>
       /\ event.loader = LoaderOfExt(event.path)
       /\ Runnable(files, event.path) =>
             IF event.loader = "so"
             THEN event.result = "true"
             ELSE /\ event.result = "exec"
                  /\ stack # <<>>
                  /\ stack[Len(stack)].op = "load"
                  /\ stack[Len(stack)].path = event.path
                  /\ stack[Len(stack)].calls = 0

\* a load has started the code of a path that was required before and whose
\* code an earlier load is still running: the second of two loads runs it again
C2_Witness ==
    /\ IsCall(event) /\ event.op = "load" /\ event.result = "exec"
    /\ In(event.path, loaded)
    /\ Len(stack) >= 2
    /\ stack[Len(stack) - 1].op = "load"
    /\ stack[Len(stack) - 1].path = event.path
    /\ stack[Len(stack)].path = event.path

\* C3: while a require of path P is being dispatched (a require frame of P is
\* in progress, P is in the Loading Registry and not in the Loaded Registry),
\* a nested require that resolves to P returns false and dispatches nothing,
\* and a nested load that resolves to P is handed to P's loader.
C3_NestedRequireOfLoading ==
    [][ (/\ IsCall(event') /\ event'.path # Nil
         /\ \E i \in 1..Len(stack) :
                stack[i].op = "require" /\ stack[i].path = event'.path
         /\ In(event'.path, loading.ary)
         /\ ~In(event'.path, loaded)) =>
           /\ event'.op = "require" =>
                 /\ event'.result = "false"
                 /\ event'.loader = "none"
                 /\ stack' = Bump(stack)
                 /\ loaded' = loaded /\ loading' = loading
           /\ event'.op = "load" =>
                 /\ event'.loader = LoaderOfExt(event'.path)
                 /\ event'.loader # "none"
                 /\ Runnable(files, event'.path) =>
                       /\ event'.result = "exec"
                       /\ Len(stack') = Len(stack) + 1
                       /\ stack'[Len(stack')].path = event'.path ]_vars

\* module code running under a require of P has required P again and got false
C3_Witness ==
    /\ IsCall(event) /\ event.op = "require" /\ event.result = "false"
    /\ stack # <<>>
    /\ stack[Len(stack)].op = "require"
    /\ stack[Len(stack)].path = event.path
    /\ ~In(event.path, loaded)

\* the resolved paths the Loading Registry holds
LoadingPaths == {p \in Range(loading.ary) : p # Nil}

\* C4: with modules whose top-level code only requires, every dispatch in
\* progress is of a different path of the Loading Registry, so the nesting is
\* at most the number of distinct resolved paths (each an existing file), and
\* a require that has started always comes to an end.
C4_RequireTerminates ==
    /\ [](/\ Len(stack) <= Cardinality(LoadingPaths)
          /\ LoadingPaths \subseteq DOMAIN files
          /\ \A i, j \in 1..Len(stack) : i # j => stack[i].path # stack[j].path)
    /\ (stack # <<>>) ~> (stack = <<>>)

\* a require cycle: module code running under a require of P required Q, and
\* Q's code has required P again and got false
C4_Witness ==
    /\ Len(stack) = 2
    /\ stack[1].path # stack[2].path
    /\ IsCall(event) /\ event.op = "require" /\ event.result = "false"
    /\ event.path = stack[1].path

\* the candidate find_file_check builds for directory d, name n and suffix e
Candidate(d, n, e) == Realpath(d \o <<"/">> \o n \o e)

\* a bare module name: no '.', and neither absolute nor relative to "."
IsBare(n) == n # <<>> /\ n[1] # "/" /\ \A i \in 1..Len(n) : n[i] # "."

SuffixOrder == <<RB_EXT, MRB_EXT, SO_EXT>>

\* C5: a bare name resolves to the first candidate that exists, with the
\* directories of the Search Path in order outside and the suffixes .rb,
\* .mrb, SO_EXT in order inside: no candidate of an earlier directory, and no
\* candidate of the same directory with an earlier suffix, exists.
C5_ResolutionOrder ==
    (IsCall(event) /\ IsBare(event.name) /\ loadPath.isary /\ event.raise = "none") =>
       \E i \in 1..Len(loadPath.ary) : \E j \in 1..3 :
          /\ event.path = Candidate(loadPath.ary[i], event.name, SuffixOrder[j])
          /\ event.path \in DOMAIN files
          /\ \A i2 \in 1..Len(loadPath.ary) : \A j2 \in 1..3 :
                (i2 < i \/ (i2 = i /\ j2 < j)) =>
                   Candidate(loadPath.ary[i2], event.name, SuffixOrder[j2])
                       \notin DOMAIN files

\* "m" resolved to /a/m.mrb (first directory, second suffix) although /b/m.rb
\* (second directory, first suffix) exists
C5_Witness ==
    /\ IsCall(event) /\ event.name = <<"m">>
    /\ loadPath = Ary(<<Dir_a, Dir_b>>)
    /\ event.path = A_m_mrb
    /\ B_m_rb \in DOMAIN files

\* the final path segment of the name contains a '.'
FinalSegmentHasDot(n) ==
    \E i \in 1..Len(n) : n[i] = "." /\ \A j \in (i + 1)..Len(n) : n[j] # "/"

\* C6 (as claimed): the candidate list is decided by the final segment of the
\* module name: the three suffixes unless that segment contains a '.', and then
\* the single as-is candidate.
C6_CandidatesByFinalSegment ==
    (IsCall(event) /\ event.raise # "RuntimeError") =>
       event.exts = IF FinalSegmentHasDot(event.name) THEN <<Nil>> ELSE SuffixOrder

\* C7 (as claimed): load or require of a name starting with '/' that does not
\* open fails with the LoadError of find_file; no loader is dispatched, the
\* process goes on and neither registry has changed (nil is not pushed).
C7_AbsoluteMissingRaises ==
    (IsCall(event) /\ event.name[1] = "/" /\ event.name \notin DOMAIN files
        /\ loadPath.isary) =>
       /\ event.result = "raise"
       /\ event.raise = "LoadError"
       /\ event.loader = "none"
       /\ ~crashed
       /\ ~In(Nil, loading.ary)

\* what a resolution gives: the error raised and the path returned
Res(r) == [raise |-> r.raise, path |-> r.path]

\* the arrays of at most two directories
DirLists ==
    LET D == {Dir_a, Dir_b, <<".">>}
    IN  {Ary(<<>>)} \cup {Ary(<<d>>) : d \in D} \cup {Ary(<<d, e>>) : d, e \in D}

UnderCwd(path) ==
    Len(path) > Len(Cwd) + 1 /\ SubSeq(path, 1, Len(Cwd) + 1) = Cwd \o <<"/">>

\* C9: for a name beginning with '.', the only directory searched is ".": a
\* path that is found lies under the current directory, the call fails when
\* no candidate under the current directory exists (whatever the Search Path
\* directories hold), and the Search Path global is as it was.
C9_DotNameCurrentDirOnly ==
    [][ (IsCall(event') /\ event'.name[1] = ".") =>
           /\ loadPath' = loadPath
           /\ \A i \in 1..Len(event'.dirs) : event'.dirs[i] = <<".">>
           /\ event'.raise = "none" => UnderCwd(event'.path)
           /\ (\A e \in {<<>>, RB_EXT, MRB_EXT, SO_EXT} :
                   Candidate(Cwd, event'.name, e) \notin DOMAIN files) =>
                 /\ event'.raise # "none"
                 /\ event'.result = "raise"
                 /\ event'.path = Nil ]_vars

\* "./m.rb" was not found although /b/m.rb exists and /b is on the Search Path
C9_Witness ==
    /\ IsCall(event) /\ event.name = <<".", "/", "m", ".", "r", "b">>
    /\ event.raise = "LoadError"
    /\ loadPath = Ary(<<Dir_a, Dir_b>>)
    /\ B_m_rb \in DOMAIN files

\* C10: when the Search Path is an array and no (directory, candidate) pair of
\* a non-absolute name opens, load and require raise the LoadError that
\* carries the module name as given; no loader runs, no unit is started and
\* neither registry changes.
C10_UnresolvableRaises ==
    [][ (/\ IsCall(event') /\ event'.name[1] # "/" /\ loadPath.isary
         /\ LET dirs == IF event'.name[1] = "." THEN << <<".">> >> ELSE loadPath.ary
            IN  \A i \in 1..Len(dirs) : \A j \in 1..Len(event'.exts) :
                   Candidate(dirs[i], event'.name,
                             IF event'.exts[j] = Nil THEN <<>> ELSE event'.exts[j])
                       \notin DOMAIN files) =>
           /\ event'.result = "raise"
           /\ event'.raise = "LoadError"
           /\ event'.msg = event'.name
           /\ event'.loader = "none"
           /\ loaded' = loaded /\ loading' = loading /\ tmp' = tmp
           /\ Len(stack') <= Len(stack)
           /\ ~crashed' ]_vars

\* a bare name under an empty Search Path failed with the LoadError for "m"
C10_Witness ==
    /\ IsCall(event) /\ event.name = <<"m">>
    /\ loadPath = Ary(<<>>)
    /\ event.raise = "LoadError" /\ event.msg = <<"m">>
    /\ event.result = "raise"

\* the final segment of a path (what follows its last '/')
FinalSegment(path) == StrFrom(path, StrRChr(path, "/") + 1)

\* the extension of the final segment: from its last '.', <<>> when it has none
FinalExt(path) ==
    LET seg == FinalSegment(path)
        i   == StrRChr(seg, ".")
    IN  IF i = 0 THEN <<>> ELSE StrFrom(seg, i)

\* the loader that stands for an extension, "none" for any other extension
LoaderFor(ext) ==
    IF ext = MRB_EXT THEN "mrb"
    ELSE IF ext = RB_EXT THEN "rb"
    ELSE IF ext = SO_EXT THEN "so"
    ELSE "none"

\* the call handed a resolved path to load_file
Dispatched(e) ==
    IsCall(e) /\ e.path # Nil /\ e.raise = "none" /\ (e.op = "load" \/ e.check = "new")

\* C11: a dispatch of a resolved path runs the one loader its extension stands
\* for (bytecode for .mrb, source for .rb, native for SO_EXT) and no other, or,
\* when the extension is none of the three or is missing, raises a load error,
\* runs no loader, starts no unit and leaves the temporary file alone.
C11_OneLoaderOrError ==
    [][ Dispatched(event') =>
           IF LoaderFor(FinalExt(event'.path)) # "none"
           THEN event'.loader = LoaderFor(FinalExt(event'.path))
           ELSE /\ event'.loader = "none"
                /\ event'.result = "raise"
                /\ event'.err \in {"invalid", "invalid_ext"}
                /\ Len(stack') <= Len(stack)
                /\ tmp' = tmp
                /\ loaded' = loaded ]_vars

\* the bytecode loader ran for /a/m.mrb
C11_Witness ==
    /\ Dispatched(event) /\ event.path = A_m_mrb
    /\ event.loader = "mrb"

\* C12 (as claimed): a dispatched path whose final segment contains no '.'
\* fails with the "invalid filepath" load error (the one for a missing
\* extension), also when a directory of the path contains a '.'.
C12_NoExtensionInvalidFilepath ==
    (Dispatched(event) /\ FinalExt(event.path) = <<>>) =>
       /\ event.result = "raise"
       /\ event.err = "invalid"

\* a require call that went past the registry check to load_file
RequireDispatched(e) ==
    Dispatched(e) /\ e.op = "require"

\* C13: a require that finds its path in neither registry marks it loading,
\* then dispatches it, then marks it loaded and returns true: while the unit's
\* code runs the path is in the Loading Registry and not yet in the Loaded
\* Registry, and the return pushes it onto the Loaded Registry. A require
\* returns true only after it dispatched and returns false only when it did
\* not dispatch; after it returned true the path is in the Loaded Registry.
C13_RequireSequence ==
    [][ /\ (IsCall(event') /\ event'.op = "require" /\ event'.path # Nil
               /\ event'.raise = "none") =>
              /\ (~In(event'.path, loaded) /\ ~In(event'.path, loading.ary))
                    <=> RequireDispatched(event')
              /\ RequireDispatched(event') =>
                    /\ In(event'.path, loading'.ary)
                    /\ event'.result \in {"exec", "true", "raise"}
              /\ event'.result = "exec" =>
                    /\ loaded' = loaded
                    /\ stack'[Len(stack')].op = "require"
                    /\ stack'[Len(stack')].path = event'.path
              /\ event'.result = "true" =>
                    /\ RequireDispatched(event')
                    /\ event'.loader # "none"
                    /\ loaded' = Append(loaded, event'.path)
              /\ event'.result = "false" =>
                    /\ ~RequireDispatched(event')
                    /\ event'.loader = "none"
                    /\ loaded' = loaded /\ loading' = loading
                    /\ Len(stack') = Len(stack)
        /\ (event'.kind = "return" /\ event'.op = "require") =>
              /\ event'.result = "true"
              /\ In(event'.path, loading.ary)
              /\ ~In(event'.path, loaded)
              /\ loaded' = Append(loaded, event'.path)
              /\ loading' = loading ]_vars

\* with $: = ["/a", "/b"] and m present only as /b/m.rb, require "m" has
\* returned true and /b/m.rb is in the Loaded Registry
C13_Witness ==
    /\ event.kind = "return" /\ event.op = "require"
    /\ event.path = B_m_rb
    /\ loadPath = Ary(<<Dir_a, Dir_b>>)
    /\ DOMAIN files \cap {A_m_rb, A_m_mrb, A_m_so} = {}
    /\ In(B_m_rb, loaded)
    /\ stack = <<>>

\* a load_rb_file call is in progress: the code of a source file is running
SourceLoadInProgress ==
    \E i \in 1..Len(stack) : load_file(stack[i].path) = "rb"

\* C14 (as claimed): the temporary bytecode file the source loader writes is
\* deleted by the time that load ends, however it ends: when no source load is
\* in progress the temporary file does not exist.
C14_TmpDeletedWhenLoadEnds ==
    (~crashed /\ ~SourceLoadInProgress) => ~tmp.exists

\* C15 (as claimed): when the compilation of a source file fails, the load or
\* require of it fails with an error raised to the caller: the call does not
\* return normally, no code is started, and the path is not put in the Loaded
\* Registry.
C15_CompileErrorRaised ==
    (Dispatched(event) /\ event.loader = "rb" /\ files[event.path] = "bad") =>
       /\ event.result = "raise"
       /\ ~In(event.path, loaded)

\* C16 (as claimed): when the deserialization of a bytecode file fails, the
\* bytecode loader fails the call through the VM's error channel: the call
\* does not return normally, and a require of the file neither returns true
\* nor puts the path in the Loaded Registry.
C16_BadBytecodeRaised ==
    (Dispatched(event) /\ event.loader = "mrb" /\ files[event.path] = "bad") =>
       /\ event.result = "raise"
       /\ ~In(event.path, loaded)

\* the frames a step has unwound by an exception: those above the new top
Unwound(before, after) ==
    {before[i] : i \in (Len(after) + 1)..Len(before)}

\* C17: a require whose dispatch fails (the dispatcher or the loader raises, or
\* the unit's code raises) leaves its path in the Loading Registry and out of
\* the Loaded Registry; no step removes an entry from either registry; and a
\* require of a path of the Loading Registry returns false without
\* dispatching: require never retries a module that failed.
C17_FailedNeverRetried ==
    [][ /\ Len(loaded') >= Len(loaded)
        /\ \A i \in 1..Len(loaded) : loaded'[i] = loaded[i]
        /\ Len(loading'.ary) >= Len(loading.ary)
        /\ \A i \in 1..Len(loading.ary) : loading'.ary[i] = loading.ary[i]
        /\ (RequireDispatched(event') /\ event'.result = "raise") =>
              /\ In(event'.path, loading'.ary)
              /\ ~In(event'.path, loaded')
        /\ (event'.result = "raise" /\ ~crashed') =>
              \A fr \in Unwound(stack, stack') :
                 fr.op = "require" =>
                    /\ In(fr.path, loading'.ary)
                    /\ ~In(fr.path, loaded')
        /\ (IsCall(event') /\ event'.op = "require" /\ event'.path # Nil
               /\ event'.raise = "none" /\ In(event'.path, loading.ary)) =>
              /\ event'.result = "false"
              /\ event'.loader = "none"
              /\ loaded' = loaded /\ loading' = loading /\ tmp' = tmp ]_vars

\* a require of a path whose earlier require failed (the path is in the
\* Loading Registry, not in the Loaded Registry, and no load of it is in
\* progress) has returned false
C17_Witness ==
    /\ IsCall(event) /\ event.op = "require" /\ event.result = "false"
    /\ In(event.path, loading.ary)
    /\ ~In(event.path, loaded)
    /\ stack = <<>>

\* the Search Path each value of the environment variable stands for
InitialSearchPaths == { Ary(<<>>), Ary(<<Dir_a, Dir_b>>) }

\* C18 (as claimed): after initialization and before any load or require, the
\* Search Path holds the entries of the environment variable (none when it is
\* unset), and the Loaded Registry and the Loading Registry are both
\* initialized to an empty sequence.
C18_InitialState ==
    event.kind = "init" =>
       /\ loadPath \in InitialSearchPaths
       /\ loaded = <<>>
       /\ ~loading.isnil
       /\ loading.ary = <<>>

\* no element occurs twice in seq
NoDuplicate(seq) ==
    \A i, j \in 1..Len(seq) : seq[i] = seq[j] => i = j

\* C19: in every state reached by top-level and nested load and require calls,
\* neither registry holds a path twice, and every path of the Loaded Registry
\* is in the Loading Registry.
C19_RegistriesWellFormed ==
    /\ NoDuplicate(loaded)
    /\ NoDuplicate(loading.ary)
    /\ Range(loaded) \subseteq Range(loading.ary)

\* two paths are in the Loaded Registry and a load runs one of them again:
\* both registries still hold each path once
C19_Witness ==
    /\ Len(loaded) = 2
    /\ Len(loading.ary) >= 2
    /\ IsCall(event) /\ event.op = "load" /\ event.result = "exec"
    /\ In(event.path, loaded)

\* C20: all source loads share the one temporary file, and yet, for any
\* nesting of source loads, the code every unit in progress executes is the
\* bytecode compiled from its own source: when a source unit starts, the
\* temporary file holds the bytecode of that very source and has been read
\* back; and once a source load has returned normally the temporary file does
\* not exist.
C20_OwnBytecode ==
    /\ \A i \in 1..Len(stack) : stack[i].code = stack[i].path
    /\ (IsCall(event) /\ event.result = "exec" /\ event.loader = "rb") =>
          /\ tmp.exists
          /\ tmp.src = event.path
          /\ stack[Len(stack)].code = event.path
    /\ (event.kind = "return" /\ load_file(event.path) = "rb") => ~tmp.exists

\* the code of the source file /c/m.rb has loaded the source file /b/m.rb:
\* two source loads are nested and the temporary file holds the inner one's
\* bytecode
C20_Witness ==
    /\ Len(stack) = 2
    /\ stack[1].path = C_m_rb /\ stack[1].code = C_m_rb
    /\ stack[2].path = B_m_rb /\ stack[2].code = B_m_rb
    /\ tmp.exists /\ tmp.src = B_m_rb

=============================================================================
